---- MODULE Spec2Model ----
(***************************************************************************)
(* The journaling client of src/App.tsx: the React component state, the    *)
(* asynchronous handlers (each suspended at its awaits) and the backend    *)
(* service they call (auth session, journal_entries table).                *)
(*                                                                         *)
(* Every await is a boundary: the request is issued in one step, the       *)
(* backend processes it in another and the handler's continuation runs in  *)
(* a third, so that responses may be applied in any order.  Rendering is   *)
(* taken to follow every state update at once: an event handler always     *)
(* sees the state of the step in which it is invoked.                      *)
(***************************************************************************)
EXTENDS Integers, Sequences, FiniteSets, TLC

\* ---------------------------------------------------------------- bounds
MaxInserts == 1    \* inserts issued in one run
MaxLoads == 2      \* loadEntries calls in flight
MaxSaves == 2      \* handleSaveEntry calls in flight (direct invocation)
MaxDels == 1       \* handleDeleteEntry calls in flight
MaxEvents == 1     \* session-change notifications not yet delivered
MaxAuths == 1      \* handleAuth calls in flight
MaxSignOuts == 1   \* handleSignOut calls in flight
MaxOps == 2        \* session changes from outside, submits of the auth form,
                   \* sign-outs and confirmed deletes in one run

\* ------------------------------------------------------------ vocabulary
None == "none"
Users == {"u1", "u2"}

\* error strings set by the handlers
ErrLogin == "You must be logged in to save entries"
ErrEmpty == "Entry cannot be empty"
ErrExpired == "Session expired. Please log in again."
ErrBackend == "backend error message"
MsgConfirm == "Check your email for the confirmation link!"

\* the composer texts the user types: empty, blank, and text with white
\* space at one end
Texts == {<<>>, <<" ">>, <<" ", "a">>}

\* String.prototype.trim: strips the white space at both ends
RECURSIVE TrimLeft(_)
TrimLeft(s) == IF s # <<>> /\ Head(s) = " " THEN TrimLeft(Tail(s)) ELSE s

RECURSIVE TrimRight(_)
TrimRight(s) ==
  IF s # <<>> /\ s[Len(s)] = " " THEN TrimRight(SubSeq(s, 1, Len(s) - 1)) ELSE s

Trim(s) == TrimRight(TrimLeft(s))

Remove(q, i) == SubSeq(q, 1, i - 1) \o SubSeq(q, i + 1, Len(q))

VARIABLES
  \* React state of App
  session, loading, isLogin, authError, currentEntry, entries, saving, error,
  showSuccess,
  \* auth client and backend table
  authSession, events, db, nextId,
  \* client clock, read by new Date()
  now,
  \* suspended handlers
  restore, auths, signOuts, saves, dels, loads, timers,
  \* history
  last, deletedOk, used

vars == <<session, loading, isLogin, authError, currentEntry, entries, saving,
          error, showSuccess, authSession, events, db, nextId, now, restore,
          auths, signOuts, saves, dels, loads, timers, last, deletedOk,
          used>>

react == <<session, loading, isLogin, authError, currentEntry, entries, saving,
           error, showSuccess>>

\* history: what the last step was and what it found
Tag(op, pre) == [op |-> op, pre |-> pre]
NoTag == Tag("other", <<>>)

\* what a call of handleSaveEntry that fails must leave alone
Frame == [saves |-> saves, loads |-> loads, dels |-> dels, db |-> db,
          nextId |-> nextId, now |-> now, currentEntry |-> currentEntry,
          entries |-> entries, session |-> session,
          authSession |-> authSession, saving |-> saving,
          showSuccess |-> showSuccess, timers |-> timers]

\* ------------------------------------------------- backend (journal_entries)
Ids(rows) == {r.id : r \in rows}

\* faulty variant: ascending order
RECURSIVE SelectAllAscending(_)
SelectAllAscending(rows) ==
  IF rows = {} THEN <<>>
  ELSE LET low == CHOOSE r \in rows : \A q \in rows : r.created_at <= q.created_at
       IN <<low>> \o SelectAllAscending(rows \ {low})

\* .select('*').order('created_at', { ascending: false })
RECURSIVE SelectAll(_)
SelectAll(rows) ==
  IF rows = {} THEN <<>>
  ELSE LET top == CHOOSE r \in rows : \A q \in rows : q.created_at <= r.created_at
       IN <<top>> \o SelectAll(rows \ {top})

\* faulty variant: the filter matches no row
DeleteNoRows(rows, id) == rows

\* .delete().eq('id', id)
DeleteRows(rows, id) == {r \in rows : r.id # id}

\* faulty variant: the content is read from the composer when the insert
\* is stored
InsertRowLiveComposer(rows, id, sv) ==
  rows \cup {[id |-> id, content |-> currentEntry, created_at |-> sv.at,
              user_id |-> sv.uid]}

\* .insert([{ user_id, content, created_at }]); the backend assigns the id
InsertRow(rows, id, sv) ==
  rows \cup {[id |-> id, content |-> sv.content, created_at |-> sv.at,
              user_id |-> sv.uid]}

\* ------------------------------------------------------- guards of the code
\* faulty variant: the session guard is missing
NoUserUnchecked(sess) == FALSE

\* !session?.user
NoUser(sess) == sess = None

\* faulty variant: the text is not trimmed
IsBlankUntrimmed(text) == text = <<>>

\* !currentEntry.trim()
IsBlank(text) == Trim(text) = <<>>

\* faulty variant: only the error of the re-check is looked at
SessionInvalidErrorOnly(err, sess) == err

\* sessionError || !currentSession
SessionInvalid(err, sess) == err \/ sess = None

\* faulty variant: the button is not disabled while saving
SaveDisabledBlankOnly == Trim(currentEntry) = <<>>

\* disabled={saving || !currentEntry.trim()}
SaveDisabled == saving \/ IsBlank(currentEntry)

\* faulty variant: the error of the insert is not looked at
InsertResolved(sv) == sv.pc \in {"insOk", "insErr"}

\* if (error) throw error, after the insert: the code below runs on success
InsertSucceeded(sv) == sv.pc = "insOk"

\* if (error) throw error, after the delete: the code below runs on success
DeleteSucceeded(d) == d.pc = "ok"

\* faulty variant: the catch block resets the composer
ComposerClearedOnError(text) == <<>>

\* catch of handleSaveEntry: setError only, the composer keeps its text
ComposerAfterSaveError(text) == text

\* faulty variant: saving is left as it is
SavingNotReset(old) == old

\* finally { setSaving(false) }
SavingAfterSave(old) == FALSE

\* faulty variant: nothing is shown
SignUpSilent == None

\* setAuthError('Check your email for the confirmation link!')
SignUpNotice == MsgConfirm

\* the view rendered: "Loading...", the auth form, or the journal
AuthView == ~loading /\ session = None
MainView == ~loading /\ session # None

\* ------------------------------------------------------------- loadEntries
NewLoad(by, rid, c) ==
  [st |-> "sent", data |-> <<>>, by |-> by, rid |-> rid, c |-> c,
   fresh |-> FALSE, ver |-> 0]

\* history: the number of changes the table has seen (rows stored, rows
\* removed), and what a load that is applied found
Mutations == (nextId - 2) + ((nextId - 1) - Cardinality(db))

LoadTag(ld) ==
  [by |-> ld.by, rid |-> ld.rid, c |-> ld.c, fresh |-> ld.fresh,
   data |-> ld.data, ver |-> ld.ver, was |-> entries,
   prev |-> IF last.op = "loadOk" THEN last.pre.ver ELSE -1]

CanLoad == Len(loads) < MaxLoads

\* loadEntries(): issues the select and suspends
IssueLoad(by, rid, c) == Append(loads, NewLoad(by, rid, c))

\* faulty variant: the rows are added to the list
EntriesAfterLoadAppended(ld, old) == IF ld.st = "ok" THEN old \o ld.data ELSE old

\* faulty variant: a failed load empties the list
EntriesAfterLoadCleared(ld, old) == IF ld.st = "ok" THEN ld.data ELSE <<>>

\* setEntries(data || []) on success; the catch only logs
EntriesAfterLoad(ld, old) == IF ld.st = "ok" THEN ld.data ELSE old

\* faulty variant: the list is not cleared
EntriesAfterSignOutKept(old) == old

\* setEntries([]) of handleSignOut
EntriesAfterSignOut(old) == <<>>

\* the table holds an entry of an earlier run
OldRow == [id |-> 1, content |-> <<"a">>, created_at |-> 0, user_id |-> "u1"]

Init ==
  /\ session = None
  /\ loading = TRUE
  /\ isLogin = TRUE
  /\ authError = None
  /\ currentEntry = <<>>
  /\ entries = <<>>
  /\ saving = FALSE
  /\ error = None
  /\ showSuccess = FALSE
  /\ authSession \in {None, "u1"}
  /\ events = <<>>
  /\ db = {OldRow}
  /\ nextId = 2
  /\ now = 1
  /\ restore = "pending"
  /\ auths = <<>>
  /\ signOuts = 0
  /\ saves = <<>>
  /\ dels = <<>>
  /\ loads = <<>>
  /\ timers = 0
  /\ last = NoTag
  /\ deletedOk = {}
  /\ used = 0

\* ---------------------------------------------------- useEffect: getSession
\* supabase.auth.getSession().then(...): an error resolves with no session
RestoreResolve ==
  /\ restore = "pending"
  /\ \E s \in {authSession, None} :
       /\ session' = s
       /\ IF s # None
            THEN CanLoad /\ loads' = IssueLoad("restore", 0, <<>>)
            ELSE loads' = loads
  /\ loading' = FALSE
  /\ restore' = "done"
  /\ last' = NoTag
  /\ UNCHANGED <<isLogin, authError, currentEntry, entries, saving, error,
                 showSuccess, authSession, events, db, nextId, now, auths,
                 signOuts, saves, dels, timers, deletedOk, used>>

\* ------------------------------------------- useEffect: onAuthStateChange
\* the session of the auth client changes outside the handlers of this
\* component (expiry, token refresh, another tab); a notification is queued
EnvAuthChange ==
  /\ Len(events) < MaxEvents
  /\ \E s \in Users \cup {None} :
       /\ authSession' = s
       /\ events' = Append(events, s)
  /\ used < MaxOps
  /\ used' = used + 1
  /\ last' = NoTag
  /\ UNCHANGED <<react, db, nextId, now, restore, auths, signOuts, saves, dels,
                 loads, timers, deletedOk>>

\* the registered callback: setSession(session); if (session) loadEntries()
OnAuthStateChange ==
  /\ events # <<>>
  /\ LET s == Head(events)
     IN /\ session' = s
        /\ IF s # None
             THEN CanLoad /\ loads' = IssueLoad("event", 0, <<>>)
             ELSE loads' = loads
  /\ events' = Tail(events)
  /\ last' = NoTag
  /\ UNCHANGED <<loading, isLogin, authError, currentEntry, entries, saving,
                 error, showSuccess, authSession, db, nextId, now, restore,
                 auths, signOuts, saves, dels, timers, deletedOk, used>>

\* --------------------------------------------------------------- loadEntries
\* the backend answers a select: the rows in order, or an error
LoadProcess ==
  /\ \E i \in DOMAIN loads :
       /\ loads[i].st = "sent"
       /\ \/ /\ loads' = [loads EXCEPT ![i].st = "ok",
                                       ![i].data = SelectAll(db),
                                       ![i].fresh = /\ loads[i].rid \in Ids(db)
                                                    /\ loads[i].rid = nextId - 1,
                                       ![i].ver = Mutations]
             /\ last' = Tag("selectOk", i)
          \/ /\ loads' = [loads EXCEPT ![i].st = "err"]
             /\ last' = NoTag
  /\ UNCHANGED <<react, authSession, events, db, nextId, now, restore, auths,
                 signOuts, saves, dels, timers, deletedOk, used>>

\* the continuation of loadEntries after its await
LoadResolve ==
  /\ \E i \in DOMAIN loads :
       /\ loads[i].st # "sent"
       /\ entries' = EntriesAfterLoad(loads[i], entries)
       /\ last' = IF loads[i].st = "ok" THEN Tag("loadOk", LoadTag(loads[i]))
                  ELSE Tag("loadErr", [entries |-> entries, by |-> loads[i].by])
       /\ loads' = Remove(loads, i)
  /\ UNCHANGED <<session, loading, isLogin, authError, currentEntry, saving,
                 error, showSuccess, authSession, events, db, nextId, now,
                 restore, auths, signOuts, saves, dels, timers, deletedOk, used>>

\* ---------------------------------------------------------------- handleAuth
\* the mode switch under the form: setIsLogin(!isLogin); setAuthError(null)
ToggleMode ==
  /\ AuthView
  /\ isLogin' = ~isLogin
  /\ authError' = None
  /\ last' = NoTag
  /\ UNCHANGED <<session, loading, currentEntry, entries, saving, error,
                 showSuccess, authSession, events, db, nextId, now, restore,
                 auths, signOuts, saves, dels, loads, timers, deletedOk, used>>

\* submit of the form: setAuthError(null), then signInWithPassword or signUp
HandleAuth ==
  /\ AuthView
  /\ Len(auths) < MaxAuths
  /\ \E u \in Users : auths' = Append(auths, [login |-> isLogin, user |-> u])
  /\ authError' = None
  /\ used < MaxOps
  /\ used' = used + 1
  /\ last' = NoTag
  /\ UNCHANGED <<session, loading, isLogin, currentEntry, entries, saving,
                 error, showSuccess, authSession, events, db, nextId, now,
                 restore, signOuts, saves, dels, loads, timers, deletedOk>>

\* signInWithPassword succeeded: the auth client stores the session and runs
\* the onAuthStateChange callback before the await returns
SignInOk ==
  /\ CanLoad
  /\ \E i \in DOMAIN auths :
       /\ auths[i].login
       /\ authSession' = auths[i].user
       /\ session' = auths[i].user
       /\ auths' = Remove(auths, i)
  /\ loads' = IssueLoad("event", 0, <<>>)
  /\ last' = NoTag
  /\ UNCHANGED <<loading, isLogin, authError, currentEntry, entries, saving,
                 error, showSuccess, events, db, nextId, now, restore,
                 signOuts, saves, dels, timers, deletedOk, used>>

\* signUp succeeded: confirmation pending, no session
SignUpOk ==
  /\ \E i \in DOMAIN auths :
       /\ ~auths[i].login
       /\ auths' = Remove(auths, i)
  /\ authError' = SignUpNotice
  /\ last' = Tag("signUpOk", Frame)
  /\ UNCHANGED <<session, loading, isLogin, currentEntry, entries, saving,
                 error, showSuccess, authSession, events, db, nextId, now,
                 restore, signOuts, saves, dels, loads, timers, deletedOk, used>>

\* either call failed: catch -> setAuthError(err.message)
AuthFail ==
  /\ \E i \in DOMAIN auths :
       /\ auths' = Remove(auths, i)
       /\ last' = Tag(IF auths[i].login THEN "signInErr" ELSE "signUpErr",
                      Frame)
  /\ authError' = ErrBackend
  /\ UNCHANGED <<session, loading, isLogin, currentEntry, entries, saving,
                 error, showSuccess, authSession, events, db, nextId, now,
                 restore, signOuts, saves, dels, loads, timers, deletedOk, used>>

\* ------------------------------------------------------------- handleSignOut
\* click on Sign Out: supabase.auth.signOut() is issued
HandleSignOut ==
  /\ MainView
  /\ signOuts < MaxSignOuts
  /\ signOuts' = signOuts + 1
  /\ used < MaxOps
  /\ used' = used + 1
  /\ last' = NoTag
  /\ UNCHANGED <<react, authSession, events, db, nextId, now, restore, auths,
                 saves, dels, loads, timers, deletedOk>>

\* signOut() returned: when it removed the session the callback has run
\* (setSession(null)); its result is ignored, then setEntries([]) and
\* setCurrentEntry('')
SignOutResolve ==
  /\ signOuts > 0
  /\ \/ authSession' = None /\ session' = None
     \/ UNCHANGED <<authSession, session>>
  /\ entries' = EntriesAfterSignOut(entries)
  /\ currentEntry' = <<>>
  /\ signOuts' = signOuts - 1
  /\ last' = Tag("signOut", entries)
  /\ UNCHANGED <<loading, isLogin, authError, saving, error, showSuccess,
                 events, db, nextId, now, restore, auths, saves, dels, loads,
                 timers, deletedOk, used>>

\* ------------------------------------------------------------------ composer
\* onChange of the textarea: setCurrentEntry(e.target.value)
EditEntry ==
  /\ MainView
  /\ \E text \in Texts : currentEntry' = text
  /\ currentEntry' # currentEntry
  /\ last' = NoTag
  /\ UNCHANGED <<session, loading, isLogin, authError, entries, saving, error,
                 showSuccess, authSession, events, db, nextId, now, restore,
                 auths, signOuts, saves, dels, loads, timers, deletedOk, used>>

\* setTimeout(() => setShowSuccess(false), 3000)
SuccessTimeout ==
  /\ timers > 0
  /\ timers' = timers - 1
  /\ showSuccess' = FALSE
  /\ last' = NoTag
  /\ UNCHANGED <<session, loading, isLogin, authError, currentEntry, entries,
                 saving, error, authSession, events, db, nextId, now, restore,
                 auths, signOuts, saves, dels, loads, deletedOk, used>>

\* ----------------------------------------------------------- handleSaveEntry
\* if (!session?.user) { setError(...); return; }
SaveNoSession ==
  /\ NoUser(session)
  /\ error' = ErrLogin
  /\ last' = Tag("saveCall", Frame)
  /\ UNCHANGED <<session, loading, isLogin, authError, currentEntry, entries,
                 saving, showSuccess, authSession, events, db, nextId, now,
                 restore, auths, signOuts, saves, dels, loads, timers,
                 deletedOk, used>>

\* if (!currentEntry.trim()) { setError(...); return; }
SaveEmpty ==
  /\ ~NoUser(session)
  /\ IsBlank(currentEntry)
  /\ error' = ErrEmpty
  /\ last' = Tag("saveCall", Frame)
  /\ UNCHANGED <<session, loading, isLogin, authError, currentEntry, entries,
                 saving, showSuccess, authSession, events, db, nextId, now,
                 restore, auths, signOuts, saves, dels, loads, timers,
                 deletedOk, used>>

\* setSaving(true); setError(null); await supabase.auth.getSession()
\* the closure keeps the currentEntry of this invocation
SaveStart ==
  /\ ~NoUser(session)
  /\ ~IsBlank(currentEntry)
  /\ Len(saves) < MaxSaves
  /\ saving' = TRUE
  /\ error' = None
  /\ saves' = Append(saves, [pc |-> "getSession", content |-> currentEntry,
                             uid |-> None, at |-> 0, rid |-> 0])
  /\ last' = Tag("saveCall", Frame)
  /\ UNCHANGED <<session, loading, isLogin, authError, currentEntry, entries,
                 showSuccess, authSession, events, db, nextId, now, restore,
                 auths, signOuts, dels, loads, timers, deletedOk, used>>

\* the handler up to its first await
HandleSaveEntry == SaveNoSession \/ SaveEmpty \/ SaveStart

\* click on Save Entry, rendered in the journal view unless disabled
ClickSave == MainView /\ ~SaveDisabled /\ HandleSaveEntry

\* getSession() returned: throw 'Session expired' or issue the insert with
\* the user of the session just read and the time of new Date()
SaveRecheck ==
  \E i \in DOMAIN saves, err \in BOOLEAN :
    /\ saves[i].pc = "getSession"
    /\ LET cur == IF err THEN None ELSE authSession
       IN IF SessionInvalid(err, cur)
            THEN /\ error' = ErrExpired
                 /\ saving' = SavingAfterSave(saving)
                 /\ saves' = Remove(saves, i)
                 /\ currentEntry' = ComposerAfterSaveError(currentEntry)
                 /\ now' = now
            ELSE /\ now <= MaxInserts
                 /\ saves' = [saves EXCEPT ![i].pc = "insert", ![i].uid = cur,
                                           ![i].at = now]
                 /\ now' = now + 1
                 /\ UNCHANGED <<error, saving, currentEntry>>
    /\ last' = IF err THEN Tag("recheckError", Frame)
               ELSE IF authSession = None THEN Tag("recheckNoSession", Frame)
               ELSE NoTag
    /\ UNCHANGED <<session, loading, isLogin, authError, entries,
                   showSuccess, authSession, events, db, nextId, restore,
                   auths, signOuts, dels, loads, timers, deletedOk, used>>

\* the backend answers the insert: the row is stored, or an error
InsertProcess ==
  /\ \E i \in DOMAIN saves :
       /\ saves[i].pc = "insert"
       /\ \/ /\ db' = InsertRow(db, nextId, saves[i])
             /\ nextId' = nextId + 1
             /\ saves' = [saves EXCEPT ![i].pc = "insOk", ![i].rid = nextId]
          \/ /\ saves' = [saves EXCEPT ![i].pc = "insErr"]
             /\ UNCHANGED <<db, nextId>>
  /\ last' = NoTag
  /\ UNCHANGED <<react, authSession, events, now, restore, auths, signOuts,
                 dels, loads, timers, deletedOk, used>>

\* insert succeeded: setCurrentEntry(''); setShowSuccess(true); setTimeout;
\* loadEntries(); finally setSaving(false)
SaveOk ==
  /\ CanLoad
  /\ \E i \in DOMAIN saves :
       /\ InsertSucceeded(saves[i])
       /\ loads' = IssueLoad("save", saves[i].rid, saves[i].content)
       /\ saves' = Remove(saves, i)
  /\ currentEntry' = <<>>
  /\ showSuccess' = TRUE
  /\ timers' = timers + 1
  /\ saving' = SavingAfterSave(saving)
  /\ last' = NoTag
  /\ UNCHANGED <<session, loading, isLogin, authError, entries, error,
                 authSession, events, db, nextId, now, restore, auths,
                 signOuts, dels, deletedOk, used>>

\* insert failed: catch -> setError(err.message); finally setSaving(false)
SaveErr ==
  /\ \E i \in DOMAIN saves :
       /\ saves[i].pc = "insErr"
       /\ saves' = Remove(saves, i)
  /\ error' = ErrBackend
  /\ saving' = SavingAfterSave(saving)
  /\ currentEntry' = ComposerAfterSaveError(currentEntry)
  /\ last' = Tag("saveErr", Frame)
  /\ UNCHANGED <<session, loading, isLogin, authError, entries,
                 showSuccess, authSession, events, db, nextId, now, restore,
                 auths, signOuts, dels, loads, timers, deletedOk, used>>

\* --------------------------------------------------------- handleDeleteEntry
\* faulty variant: the answer is not looked at
DeclinedNever(answer) == FALSE

\* !confirm('Are you sure you want to delete this entry?')
Declined(answer) == ~answer

\* click on the bin of a listed entry: return when the user answers no,
\* else the delete of that id is issued
HandleDeleteEntry ==
  /\ MainView
  /\ \E k \in DOMAIN entries, answer \in BOOLEAN :
       IF Declined(answer)
         THEN UNCHANGED vars
         ELSE /\ Len(dels) < MaxDels
              /\ used < MaxOps
              /\ used' = used + 1
              /\ dels' = Append(dels, [pc |-> "sent", id |-> entries[k].id,
                                       confirmed |-> answer,
                                       saving |-> saving])
              /\ last' = NoTag
              /\ UNCHANGED <<react, authSession, events, db, nextId, now,
                             restore, auths, signOuts, saves, loads, timers,
                             deletedOk>>

\* the backend answers the delete: the row is gone, or an error
DeleteProcess ==
  /\ \E i \in DOMAIN dels :
       /\ dels[i].pc = "sent"
       /\ \/ /\ db' = DeleteRows(db, dels[i].id)
             /\ dels' = [dels EXCEPT ![i].pc = "ok"]
          \/ /\ dels' = [dels EXCEPT ![i].pc = "err"]
             /\ db' = db
  /\ last' = NoTag
  /\ UNCHANGED <<react, authSession, events, nextId, now, restore, auths,
                 signOuts, saves, loads, timers, deletedOk, used>>

\* delete succeeded: loadEntries()
DeleteOk ==
  /\ CanLoad
  /\ \E i \in DOMAIN dels :
       /\ DeleteSucceeded(dels[i])
       /\ deletedOk' = deletedOk \cup {dels[i].id}
       /\ loads' = IssueLoad("delete", dels[i].id, <<>>)
       /\ dels' = Remove(dels, i)
  /\ last' = NoTag
  /\ UNCHANGED <<react, authSession, events, db, nextId, now, restore, auths,
                 signOuts, saves, timers, used>>

\* delete failed: catch -> setError(err.message)
DeleteErr ==
  /\ \E i \in DOMAIN dels :
       /\ dels[i].pc = "err"
       /\ dels' = Remove(dels, i)
  /\ error' = ErrBackend
  /\ last' = Tag("deleteErr", Frame)
  /\ UNCHANGED <<session, loading, isLogin, authError, currentEntry, entries,
                 saving, showSuccess, authSession, events, db, nextId, now,
                 restore, auths, signOuts, saves, loads, timers, deletedOk, used>>

\* ------------------------------------------------------------ specifications
Backend == LoadProcess \/ InsertProcess \/ DeleteProcess \/ EnvAuthChange

Continuations ==
  \/ RestoreResolve \/ OnAuthStateChange \/ LoadResolve
  \/ SignInOk \/ SignUpOk \/ AuthFail \/ SignOutResolve
  \/ SaveRecheck \/ SaveOk \/ SaveErr \/ DeleteOk \/ DeleteErr
  \/ SuccessTimeout

\* the program as the user drives it: every handler is reached through the
\* element that is rendered for it
Next ==
  \/ ToggleMode \/ HandleAuth \/ HandleSignOut \/ EditEntry
  \/ ClickSave \/ HandleDeleteEntry
  \/ Continuations \/ Backend

Spec == Init /\ [][Next]_vars

\* handleSaveEntry called as a function, whatever is rendered, while no
\* other call of it is suspended
CallSave == saves = <<>> /\ HandleSaveEntry

NextCtl ==
  \/ CallSave \/ EditEntry
  \/ RestoreResolve \/ EnvAuthChange \/ OnAuthStateChange
  \/ SaveRecheck \/ InsertProcess \/ SaveOk \/ SaveErr
  \/ LoadProcess \/ LoadResolve

SpecCtl == Init /\ [][NextCtl]_vars

\* every backend call is answered and every continuation whose await has
\* returned is run by the event loop
Fairness ==
  /\ WF_vars(SaveRecheck) /\ WF_vars(InsertProcess)
  /\ WF_vars(SaveOk) /\ WF_vars(SaveErr)
  /\ WF_vars(LoadProcess) /\ WF_vars(LoadResolve)

SpecCtlFair == Init /\ [][NextCtl]_vars /\ Fairness

\* ==================================================================== claims

\* C1: a call of handleSaveEntry whose composer text is empty after trimming
\* calls nothing on the backend (no getSession, no insert, no select), sets
\* an error message, leaves saving false and leaves the composer and the
\* entry list as they were.
C1_BlankSaveRejected ==
  (last.op = "saveCall" /\ Trim(last.pre.currentEntry) = <<>>)
    => /\ error \in {ErrEmpty, ErrLogin}
       /\ saving = FALSE
       /\ Frame = last.pre

C1_Witness ==
  /\ last.op = "saveCall"
  /\ last.pre.currentEntry = <<" ">>
  /\ session # None
  /\ error = ErrEmpty
  /\ entries # <<>>

\* C2: a call of handleSaveEntry while the client holds no session sets the
\* must-be-logged-in error and starts nothing: no call is suspended, nothing
\* is written to the table, saving stays as it was.
C2_NoSessionSaveRejected ==
  (last.op = "saveCall" /\ last.pre.session = None)
    => /\ error = ErrLogin
       /\ Frame = last.pre

C2_Witness ==
  /\ last.op = "saveCall"
  /\ last.pre.session = None
  /\ Trim(last.pre.currentEntry) # <<>>
  /\ error = ErrLogin
  /\ saves = <<>>

\* C3: when the getSession of a suspended save returns an error or no
\* session, that save ends at once with the session-expired error and
\* saving false: its call is gone, no insert was stamped or stored, no
\* refresh was issued and the composer keeps its text.
C3_RecheckFailureStopsSave ==
  (last.op \in {"recheckError", "recheckNoSession"})
    => /\ error = ErrExpired
       /\ saving = FALSE
       /\ Len(saves) = Len(last.pre.saves) - 1
       /\ \A i \in DOMAIN saves : \E j \in DOMAIN last.pre.saves :
            saves[i] = last.pre.saves[j]
       /\ db = last.pre.db /\ nextId = last.pre.nextId /\ now = last.pre.now
       /\ loads = last.pre.loads
       /\ currentEntry = last.pre.currentEntry
       /\ entries = last.pre.entries

C3_Witness ==
  /\ last.op = "recheckNoSession"
  /\ session # None
  /\ authSession = None
  /\ error = ErrExpired
  /\ ~saving
  /\ saves = <<>>
  /\ Trim(currentEntry) # <<>>

\* C4: in the state that handleSignOut leaves, the entry list is empty,
\* whatever it held before.
C4_SignOutEmptiesList ==
  last.op = "signOut" => entries = <<>>

C4_Witness ==
  /\ last.op = "signOut"
  /\ last.pre # <<>>
  /\ entries = <<>>

\* C5 (as claimed): every delivered session-change notification issues a
\* refresh when it carries a session and empties the entry list when it
\* carries none.
C5_EventRefreshesOrClears ==
  [][(events # <<>> /\ events' = Tail(events) /\ authSession' = authSession)
       => IF Head(events) # None
            THEN Len(loads') = Len(loads) + 1
            ELSE entries' = <<>>]_vars

\* C6 (as claimed): loadEntries is never invoked, and so no select is ever
\* issued, while the client holds no session.
C6_LoadOnlyWithSession ==
  [][Len(loads') > Len(loads) => session' # None]_vars

\* C7: when the select of loadEntries fails, the continuation leaves the
\* entry list exactly as it was.
C7_FailedLoadKeepsList ==
  last.op = "loadErr" => entries = last.pre.entries

C7_Witness ==
  /\ last.op = "loadErr"
  /\ last.pre.entries # <<>>
  /\ entries # <<>>

\* C8: once a delete of an id has succeeded, no select answered afterwards
\* returns a row with that id.
C8_DeletedStaysGone ==
  last.op = "selectOk"
    => \A k \in DOMAIN loads[last.pre].data :
         loads[last.pre].data[k].id \notin deletedOk

C8_Witness ==
  /\ last.op = "selectOk"
  /\ loads[last.pre].by = "delete"
  /\ loads[last.pre].data # <<>>
  /\ deletedOk # {}

\* C9: when the refresh that a successful save issued is answered while the
\* saved row is the latest stored one, applying it yields an entry list
\* whose head has the content the composer held at the call, a content
\* that is not empty after trimming.
C9_SavedEntryIsHead ==
  (last.op = "loadOk" /\ last.pre.by = "save" /\ last.pre.fresh)
    => /\ entries # <<>>
       /\ entries[1].content = last.pre.c
       /\ Trim(last.pre.c) # <<>>

C9_Witness ==
  /\ last.op = "loadOk" /\ last.pre.by = "save" /\ last.pre.fresh
  /\ Len(entries) = 2
  /\ entries[1].content = <<" ", "a">>
  /\ entries[2] = OldRow

\* C10: at most one call of handleSaveEntry is suspended at any time, and
\* saving is true as long as one is.
C10_OneSaveInFlight ==
  /\ Len(saves) <= 1
  /\ saves # <<>> => saving

\* a delete that was started while a save was in flight, and still is
C10_Witness ==
  /\ saves # <<>>
  /\ \E i \in DOMAIN dels : dels[i].saving

\* C11: a refresh that belongs to a save exists only once the insert of
\* that save is stored (it carries the id the backend gave the row), a
\* refresh that belongs to a delete exists only once the row of that delete
\* is gone from the table, and a save or delete whose backend call failed
\* issues no refresh.
C11_RefreshAfterMutation ==
  /\ \A i \in DOMAIN loads :
       /\ loads[i].by = "save" => loads[i].rid \in 1..(nextId - 1)
       /\ loads[i].by = "delete" => /\ loads[i].rid \in deletedOk
                                    /\ loads[i].rid \notin Ids(db)
  /\ last.op \in {"saveErr", "deleteErr", "recheckError", "recheckNoSession"}
       => loads = last.pre.loads

\* refreshes of a save and of a delete are in flight together
C11_Witness ==
  /\ \E i \in DOMAIN loads : loads[i].by = "save" /\ loads[i].st = "sent"
  /\ \E i \in DOMAIN loads : loads[i].by = "delete" /\ loads[i].st = "sent"

\* C12: when a suspended save fails, at the session re-check or at the
\* insert, the composer keeps the text it held, the success flag and its
\* timer are not touched, no refresh is issued, an error message is set and
\* saving is false.
C12_FailedSaveKeepsComposer ==
  last.op \in {"saveErr", "recheckError", "recheckNoSession"}
    => /\ currentEntry = last.pre.currentEntry
       /\ showSuccess = last.pre.showSuccess
       /\ timers = last.pre.timers
       /\ loads = last.pre.loads
       /\ entries = last.pre.entries
       /\ error \in {ErrBackend, ErrExpired}
       /\ saving = FALSE

\* a failed insert with text in the composer
C12_Witness ==
  /\ last.op = "saveErr"
  /\ Trim(currentEntry) # <<>>
  /\ error = ErrBackend
  /\ ~showSuccess
  /\ db = {OldRow}

\* C13 (as claimed): when the select of a refresh that a save, a delete or
\* a session-change notification issued fails, the failure is stored in the
\* error state.
C13_RefreshFailureSurfaced ==
  (last.op = "loadErr" /\ last.pre.by \in {"save", "delete", "event"})
    => error = ErrBackend

C15_SignUpLeavesSessionAbsent ==
  /\ last.op = "signUpOk" => authError = MsgConfirm
  /\ last.op = "signUpErr" => authError = ErrBackend
  /\ last.op \in {"signUpOk", "signUpErr"}
       => /\ session = last.pre.session
          /\ authSession = last.pre.authSession
          /\ entries = last.pre.entries
          /\ loads = last.pre.loads

\* signUp has succeeded and the auth form is still the view
C15_Witness ==
  /\ last.op = "signUpOk"
  /\ authError = MsgConfirm
  /\ AuthView
  /\ authSession = None
  /\ entries = <<>> /\ loads = <<>>

\* C16: a delete is in flight only when the user has confirmed it; no step
\* of handleDeleteEntry (the call, the answer of the backend, either
\* continuation) changes the entry list; and when the backend delete fails
\* the error message is set, the list is as it was and no refresh is issued.
C16_DeleteGatedNotOptimistic ==
  /\ [](\A i \in DOMAIN dels : dels[i].confirmed)
  /\ [][dels' # dels => entries' = entries]_vars
  /\ [](last.op = "deleteErr"
         => /\ error = ErrBackend
            /\ entries = last.pre.entries
            /\ loads = last.pre.loads
            /\ db = last.pre.db)

\* the row is deleted, the refresh is on its way and the entry is listed
C16_Witness ==
  \E i \in DOMAIN loads :
    /\ loads[i].by = "delete"
    /\ loads[i].rid \notin Ids(db)
    /\ \E k \in DOMAIN entries : entries[k].id = loads[i].rid

\* C17: when two loads are applied one right after the other and their
\* selects were answered with no change of the table in between, the
\* entry list after the second is the entry list after the first.
C17_ListIdempotent ==
  (last.op = "loadOk" /\ last.pre.prev = last.pre.ver)
    => entries = last.pre.was

\* the second of two such loads, after a save, lists two rows
C17_Witness ==
  /\ last.op = "loadOk" /\ last.pre.prev = last.pre.ver
  /\ last.pre.ver > 0
  /\ Len(entries) = 2

\* C18 (as claimed): after startup, while the client holds no session the
\* entry list, once empty, stays empty, whatever response arrives.
C18_ListStaysEmptyWithoutSession ==
  [][(restore = "done" /\ session = None /\ entries = <<>> /\ session' = None)
       => entries' = <<>>]_vars

\* nothing is suspended and no notification waits
Quiet ==
  /\ restore = "done" /\ events = <<>>
  /\ loads = <<>> /\ saves = <<>> /\ dels = <<>> /\ auths = <<>>
  /\ signOuts = 0

\* C19 (as claimed): when two loads that were in flight together have both
\* been applied, whatever the order of their answers, and nothing else is
\* in flight, the entry list of a signed-in client is the list the table
\* holds.
C19_RefreshConverges ==
  (last.op = "loadOk" /\ last.pre.prev # -1 /\ Quiet /\ session # None)
    => entries = SelectAll(db)

\* C20: a call of handleSaveEntry that goes on to the backend keeps the
\* composer text of its call as it is, untrimmed; that text does not change
\* while the call is suspended, whatever is typed; the insert is issued
\* with the user of the session the re-check returned; the row stored has
\* that text and that user; and the continuation of a successful insert
\* empties the composer.
C20_RowCarriesCallContent ==
  /\ [][(saves = <<>> /\ saves' # <<>>)
          => saves'[1].content = currentEntry]_vars
  /\ [][(saves # <<>> /\ saves' # <<>>)
          => saves'[1].content = saves[1].content]_vars
  /\ [][(saves # <<>> /\ saves' # <<>> /\ saves[1].pc = "getSession"
          /\ saves'[1].pc = "insert")
          => saves'[1].uid = authSession /\ authSession # None]_vars
  /\ [][nextId' # nextId
          => db' = db \cup {[id |-> nextId, content |-> saves[1].content,
                             created_at |-> saves[1].at,
                             user_id |-> saves[1].uid]}]_vars
  /\ [][(saves # <<>> /\ saves[1].pc = "insOk" /\ saves' = <<>>)
          => currentEntry' = <<>>]_vars

\* the row of a save is stored with the text of the call and the user of
\* the auth client, while the composer and the session of the component
\* hold something else
C20_Witness ==
  /\ saves # <<>> /\ saves[1].pc = "insOk"
  /\ saves[1].content = <<" ", "a">>
  /\ currentEntry = <<" ">>
  /\ session # saves[1].uid
  /\ \E r \in db : /\ r.id = saves[1].rid
                    /\ r.content = <<" ", "a">>
                    /\ r.user_id = saves[1].uid
====
